---- MODULE Spec2Model ----
(***************************************************************************)
(* State-machine model of the shdwDrive client SDK (class ShdwDriveSDK in  *)
(* src/src/sdk/shdw-drive.ts): uploadFile (single-request and multipart    *)
(* paths), deleteFile with its listing precheck, signing and progress      *)
(* reporting.                                                              *)
(*                                                                         *)
(* Conventions.  A string that may contain '/' is a sequence of its        *)
(* '/'-separated segments ("a/b" is <<"a","b">>).  Every await on a        *)
(* network response is one action; the response is an input chosen by the  *)
(* remote side.  A progress percentage is the exact fraction num/den.      *)
(***************************************************************************)
EXTENDS Integers, Sequences, FiniteSets, TLC

\* ------------------------------------------------------------------ bounds
\* Largest number of whole 5 MiB chunks in an input file (file sizes go up
\* to MaxChunks * CHUNK_SIZE + 2 MiB).
MaxChunks == 2
MaxFolderLen == 6

\* ------------------------------------------------------- program constants
CHUNK_SIZE == 5 * 1024 * 1024

TwoMiB == 2 * 1024 * 1024

\* ------------------------------------------------------------ input domains
Buckets == {"B"}

\* file.name of the File handed to uploadFile.
FileNames == {<<"a.txt">>}

\* 0 and 1 byte, exactly 5 MiB, and around every multiple of 5 MiB above it
\* (12 MiB = 2 * 5 MiB + 2 MiB is the three-part scenario).
FileSizes ==
    {0, 1, CHUNK_SIZE}
        \cup {n * CHUNK_SIZE + d : n \in 1..MaxChunks, d \in {1, TwoMiB}}
        \cup {n * CHUNK_SIZE : n \in 2..MaxChunks}

\* Values of the `directory` upload option, character by character: ""
\* (or none) and "docs".
Directories == {<<>>, <<"d", "o", "c", "s">>}

\* Values of the --folder option of the upload command, character by
\* character: every string of at most MaxFolderLen of these characters.
\* <<>> is '' or no option at all (both are falsy).
FolderChars == {"/", "a", "b"}
Folders == UNION { [1..n -> FolderChars] : n \in 0..MaxFolderLen }

\* Values the server may put in its responses.
UploadIds == {"u1", "u2"}
ETags == {"e1", "e2"}
ServerKeys == {<<"a.txt">>, <<"srv", "a.txt">>}

\* Object keys that can exist on the server: the keys of these uploads and
\* one stored by another client.
ObjectKeys == FileNames \cup ServerKeys \cup {<<"b.txt">>}

\* Arguments of deleteFile: plain keys and absolute URLs.
FileUrls ==
    { <<"a.txt">>,
      <<"b.txt">>,
      <<"srv", "a.txt">>,
      <<"https:", "", "host", "B", "a.txt">>,
      <<"https:", "", "host", "B", "srv", "a.txt">>,
      <<"https:", "", "host", "v1", "B", "B", "a.txt">>,
      <<"https:", "", "host", "x", "a.txt">>,
      <<"https:", "", "host", "B">>,
      <<"https:", "", "host", "B", "">>,
      <<"https:", "", "B", "a.txt">>,
      <<"https:", "", "host">> }

\* ------------------------------------------------------------------ values
NoWallet == [present |-> FALSE, publicKey |-> "", hasSignMessage |-> FALSE]
NoKeypair == [present |-> FALSE, publicKey |-> ""]

\* The wallets a caller may hand to the constructor: with or without a
\* public key string, with or without the optional signMessage member.
Wallets ==
    { [present |-> TRUE, publicKey |-> pk, hasSignMessage |-> s] :
        pk \in {"", "WPK"}, s \in BOOLEAN }
Keypairs == { [present |-> TRUE, publicKey |-> "KPK"] }

\* tag "wallet" is `'wallet' in auth`; such an object may have a keypair
\* member as well.
Auths ==
    { [tag |-> "wallet", wallet |-> w, keypair |-> NoKeypair] : w \in Wallets }
        \cup { [tag |-> "wallet", wallet |-> w, keypair |-> k] :
                  w \in Wallets, k \in Keypairs }
        \cup { [tag |-> "keypair", wallet |-> NoWallet, keypair |-> k] : k \in Keypairs }

NoMsg == [kind |-> "none", bucket |-> "", name |-> <<>>, size |-> 0]
NoSig == [by |-> "none", key |-> "", enc |-> "raw", msg |-> NoMsg]
NoErr == [name |-> "", part |-> 0]
Err(n) == [name |-> n, part |-> 0]

EmptyReq ==
    [ ep |-> "", bucket |-> "", filename |-> <<>>, message |-> NoSig,
      signer |-> "", size |-> 0, uploadId |-> "", key |-> <<>>,
      partNumber |-> 0, start |-> 0, end |-> 0, parts |-> <<>>,
      owner |-> "", directory |-> <<>> ]

\* ----------------------------------------------------------- pure helpers
Min(a, b) == IF a <= b THEN a ELSE b

\* Math.ceil(a / b) for a >= 0, b > 0.
Ceil(a, b) == IF a % b = 0 THEN a \div b ELSE (a \div b) + 1

\* SHA256(file.name).toString(): a digest of the name, never the name itself.
SHA256(name) == <<"sha256">> \o name

\* bs58.encode(signature)
Bs58(sig) == [sig EXCEPT !.enc = "bs58"]

\* ------------------------------------------------------------------- state
VARIABLES
    sdk,            \* the client instance: endpoint, wallet, keypair
    serverObjects,  \* <<bucket, key>> pairs stored by the remote service
    op,             \* the call in progress: "none", "upload", "delete"
    pc,             \* the await the call is suspended at, "idle" or "done"
    args,           \* the call's arguments
    path,           \* branch taken by uploadFile: "none", "small", "large"
    messageToSign,  \* the canonical message built for the call
    signature,      \* local: result of signMessage
    signer,         \* local: result of getSigner
    filename,       \* local of deleteFile: the resolved key
    uploadId,       \* local of uploadLargeFile, from the create response
    key,            \* local of uploadLargeFile, from the create response
    totalParts,     \* local of uploadLargeFile
    partNumber,     \* loop variable of uploadLargeFile
    uploadedParts,  \* local of uploadLargeFile
    error,          \* the error thrown inside the call, NoErr if none
    requests,       \* fetch calls made by the call so far, in order
    replies,        \* what came back for each of them, in the same order
    listing,        \* the response fileExists got to its list request, if any
    events,         \* progress events handed to onProgress so far, in order
    result,         \* what the caller got: kind "none", "returned", "raised"
    previous,       \* history: how the call before this one ended
    calls           \* the locals of the uploadFile calls that run together

vars ==
    << sdk, serverObjects, op, pc, args, path, messageToSign, signature,
       signer, filename, uploadId, key, totalParts, partNumber,
       uploadedParts, error, requests, replies, listing, events, result,
       previous, calls >>

NoArgs ==
    [ bucket |-> "", name |-> <<>>, size |-> 0, directory |-> <<>>,
      hasSink |-> FALSE, fileUrl |-> <<>>, folder |-> <<>> ]
NoResult ==
    [kind |-> "none", success |-> FALSE, message |-> "", location |-> <<>>,
     error |-> NoErr]

\* ------------------------------------------------------------- constructor
\* 'wallet' in auth selects the wallet, anything else the keypair.
\* Variant: both members of auth are stored.
Construct_both(endpoint, auth) ==
    [ endpoint |-> endpoint, wallet |-> auth.wallet, keypair |-> auth.keypair ]

Construct(endpoint, auth) ==
    [ endpoint |-> endpoint,
      wallet |-> IF auth.tag = "wallet" THEN auth.wallet ELSE NoWallet,
      keypair |-> IF auth.tag = "wallet" THEN NoKeypair ELSE auth.keypair ]

\* ----------------------------------------------------------------- signing
\* Variant: a configured wallet is asked to sign whatever it can do.
SignMethod_anyWallet(c) ==
    IF c.wallet.present THEN "wallet"
    ELSE IF c.keypair.present THEN "keypair"
    ELSE "none"

\* Which branch of signMessage runs.
SignMethod(c) ==
    IF c.wallet.present /\ c.wallet.hasSignMessage THEN "wallet"
    ELSE IF c.keypair.present THEN "keypair"
    ELSE "none"

\* Variant: a failure to sign is swallowed and the call goes on unsigned.
SignOutcomes_swallowed(c, msg) ==
    IF c.wallet.present /\ c.wallet.hasSignMessage
    THEN { [ok |-> TRUE, err |-> NoErr,
            sig |-> Bs58([by |-> "wallet", key |-> c.wallet.publicKey,
                          enc |-> "raw", msg |-> msg])],
           [ok |-> TRUE, err |-> NoErr, sig |-> NoSig] }
    ELSE IF c.keypair.present
    THEN { [ok |-> TRUE, err |-> NoErr,
            sig |-> Bs58([by |-> "keypair", key |-> c.keypair.publicKey,
                          enc |-> "raw", msg |-> msg])] }
    ELSE { [ok |-> TRUE, err |-> NoErr, sig |-> NoSig] }

\* The outcomes of `await this.signMessage(message)`: a base58 signature, or
\* a thrown error.  A wallet's signMessage is caller code and may reject.
SignOutcomes(c, msg) ==
    CASE SignMethod(c) = "wallet" ->
            { [ok |-> TRUE, err |-> NoErr,
               sig |-> Bs58([by |-> "wallet", key |-> c.wallet.publicKey,
                             enc |-> "raw", msg |-> msg])],
              [ok |-> FALSE, err |-> Err("wallet signMessage rejected"),
               sig |-> NoSig] }
      [] SignMethod(c) = "keypair" ->
            { [ok |-> TRUE, err |-> NoErr,
               sig |-> Bs58([by |-> "keypair", key |-> c.keypair.publicKey,
                             enc |-> "raw", msg |-> msg])] }
      [] OTHER ->
            { [ok |-> FALSE, err |-> Err("No signing method available"),
               sig |-> NoSig] }

\* getSigner(): the wallet's public key if it is a non-empty string, else the
\* keypair's, else a thrown error.
GetSigner(c) ==
    IF c.wallet.present /\ c.wallet.publicKey # ""
    THEN [ok |-> TRUE, value |-> c.wallet.publicKey, err |-> NoErr]
    ELSE IF c.keypair.present
    THEN [ok |-> TRUE, value |-> c.keypair.publicKey, err |-> NoErr]
    ELSE [ok |-> FALSE, value |-> "", err |-> Err("No signer available")]

\* ------------------------------------------------------ canonical messages
\* Variant: the message tells a first call from a later one.
UploadMessage_counted(b, name) ==
    [kind |-> "Upload file with hash", bucket |-> b, name |-> SHA256(name),
     size |-> IF previous.op = "none" THEN 0 ELSE 1]

UploadMessage(b, name) ==
    [kind |-> "Upload file with hash", bucket |-> b, name |-> SHA256(name),
     size |-> 0]
InitMessage(b, name, size) ==
    [kind |-> "Initialize multipart upload", bucket |-> b, name |-> name,
     size |-> size]
DeleteMessage(b, k) ==
    [kind |-> "Delete file", bucket |-> b, name |-> k, size |-> 0]

\* ------------------------------------------------------- upload arithmetic
\* Variant: the boundary size goes to the multipart path.
UseSmallPath_strict(size) == size < CHUNK_SIZE

\* The test of uploadFile: file.size <= CHUNK_SIZE.
UseSmallPath(size) == size <= CHUNK_SIZE

\* Variant: Math.floor in place of Math.ceil.
TotalParts_floor(size) == size \div CHUNK_SIZE

\* totalParts = Math.ceil(file.size / CHUNK_SIZE)
TotalParts(size) == Ceil(size, CHUNK_SIZE)

\* Variant: the end of the slice is not capped at the file size.
PartEnd_uncapped(n, size) == n * CHUNK_SIZE

\* start and end of the slice of part n
PartStart(n) == (n - 1) * CHUNK_SIZE
PartEnd(n, size) == Min(PartStart(n) + CHUNK_SIZE, size)

\* Variant: unshift in place of push.
PushPart_front(parts, etag, n) == <<[ETag |-> etag, PartNumber |-> n]>> \o parts

\* uploadedParts.push({ETag, PartNumber})
PushPart(parts, etag, n) == Append(parts, [ETag |-> etag, PartNumber |-> n])

\* Variant: the parts take the whole scale, nothing is kept for completion.
PartProgress_full(n, total) == [num |-> n * 100, den |-> total]

\* The percentage reported after part n: (n / total) * 90, as a fraction.
PartProgress(n, total) == [num |-> n * 90, den |-> total]
FinalProgress == [num |-> 100, den |-> 1]

\* Variant: the event that reports 100 percent is labelled 'complete'.
Emit_labelled(evs, sink, status, p) ==
    IF sink
    THEN Append(evs, [status |-> IF p.num = 100 * p.den THEN "complete"
                                 ELSE status,
                      num |-> p.num, den |-> p.den])
    ELSE evs

\* updateProgress / the catch block: onProgress?.({status, progress})
Emit(evs, sink, status, p) ==
    IF sink THEN Append(evs, [status |-> status, num |-> p.num, den |-> p.den])
    ELSE evs

\* ---------------------------------------------------------------- requests
UploadReq(b, name, size, sig, who) ==
    [EmptyReq EXCEPT !.ep = "/v1/object/upload", !.bucket = b,
                     !.filename = name, !.size = size, !.start = 0,
                     !.end = size, !.message = sig, !.signer = who]
CreateReq(b, name, size, sig, who) ==
    [EmptyReq EXCEPT !.ep = "/v1/object/multipart/create", !.bucket = b,
                     !.filename = name, !.size = size, !.message = sig,
                     !.signer = who]
\* Variant: the part goes out under the name of the local file.
PartReq_localKey(b, name, size, uid, n, k, who) ==
    [EmptyReq EXCEPT !.ep = "/v1/object/multipart/upload-part", !.bucket = b,
                     !.filename = name, !.uploadId = uid, !.partNumber = n,
                     !.key = name, !.signer = who, !.start = PartStart(n),
                     !.end = PartEnd(n, size)]

PartReq(b, name, size, uid, n, k, who) ==
    [EmptyReq EXCEPT !.ep = "/v1/object/multipart/upload-part", !.bucket = b,
                     !.filename = name, !.uploadId = uid, !.partNumber = n,
                     !.key = k, !.signer = who, !.start = PartStart(n),
                     !.end = PartEnd(n, size)]
CompleteReq(b, uid, k, parts, who) ==
    [EmptyReq EXCEPT !.ep = "/v1/object/multipart/complete", !.bucket = b,
                     !.uploadId = uid, !.key = k, !.parts = parts,
                     !.signer = who]
ListReq(b, who) ==
    [EmptyReq EXCEPT !.ep = "/v1/object/list", !.bucket = b, !.owner = who]
\* Variant: the request names the input as given, not the resolved key.
DeleteReq_unresolved(b, k, sig, who) ==
    [EmptyReq EXCEPT !.ep = "/v1/object/delete", !.bucket = b,
                     !.filename = args.fileUrl, !.message = sig, !.signer = who]

DeleteReq(b, k, sig, who) ==
    [EmptyReq EXCEPT !.ep = "/v1/object/delete", !.bucket = b, !.filename = k,
                     !.message = sig, !.signer = who]

\* --------------------------------------------------------------- responses
\* net: fetch resolved; ok: response.ok; ctype: the content-type header;
\* parses: the body is JSON that has the shape the code reads;
\* error, message: the members of that name of the parsed body ("" if absent).
NetFail ==
    [ net |-> FALSE, ok |-> FALSE, ctype |-> "json", parses |-> FALSE,
      error |-> "", message |-> "", uploadId |-> "", key |-> <<>>,
      ETag |-> "", hasObjects |-> FALSE, objects |-> {} ]

HttpResponses ==
    { [NetFail EXCEPT !.net = TRUE, !.ok = o, !.ctype = c, !.parses = TRUE,
                      !.error = e, !.message = m] :
        o \in BOOLEAN, c \in {"json", "text"}, e \in {"", "srv error"},
        m \in {"", "srv message"} }
      \cup
    { [NetFail EXCEPT !.net = TRUE, !.ok = o, !.ctype = c] :
        o \in BOOLEAN, c \in {"json", "text"} }

Responses == {NetFail} \cup HttpResponses

CreateResponses ==
    { r \in Responses : ~(r.ok /\ r.parses) }
      \cup
    { [r EXCEPT !.uploadId = u, !.key = k] :
        r \in { x \in HttpResponses : x.ok /\ x.parses /\ x.ctype = "json"
                                      /\ x.error = "" /\ x.message = "" },
        u \in UploadIds, k \in ServerKeys }

PartResponses ==
    { r \in Responses : ~(r.ok /\ r.parses) }
      \cup
    { [r EXCEPT !.ETag = e] :
        r \in { x \in HttpResponses : x.ok /\ x.parses /\ x.ctype = "json"
                                      /\ x.error = "" /\ x.message = "" },
        e \in ETags }

\* What the reply log keeps of a response.
Reply(r) ==
    [ net |-> r.net, ok |-> r.net /\ r.ok, parses |-> r.net /\ r.parses,
      ETag |-> r.ETag, uploadId |-> r.uploadId, key |-> r.key,
      ctype |-> "json", error |-> "", message |-> "" ]

\* Of a !ok upload response the log also keeps what uploadSmallFile reads:
\* the content type and the error and message members of the body.
UploadReply(r) ==
    IF r.net /\ ~r.ok
    THEN [Reply(r) EXCEPT !.ctype = r.ctype, !.error = r.error,
                          !.message = r.message]
    ELSE Reply(r)

\* Of a !ok complete response the log also keeps what uploadLargeFile
\* reads: the error member of the body.
CompleteReply(r) ==
    IF r.net /\ ~r.ok THEN [Reply(r) EXCEPT !.error = r.error] ELSE Reply(r)

\* --------------------------------------------------------- thrown errors
FetchError == Err("fetch failed")
ParseError == Err("Unexpected token in JSON")
\* Variant: the error names the zero-based index of the part.
PartError_zeroBased(n) == [name |-> "Failed to upload part", part |-> n - 1]

\* new Error(`Failed to upload part ${partNumber}`)
PartError(n) == [name |-> "Failed to upload part", part |-> n]

\* The message of the Error thrown by uploadSmallFile on !response.ok.
SmallUploadError(r) ==
    IF r.ctype = "json"
    THEN IF ~r.parses
         THEN Err("Upload failed - Status, Error parsing response")
         ELSE IF r.error # "" THEN Err(r.error)
         ELSE IF r.message # "" THEN Err(r.message)
         ELSE Err("Upload failed")
    ELSE Err("Upload failed - Status, Response")

\* error.error || fallback, after `await response.json()` on a !ok response.
JsonError(r, fallback) ==
    IF ~r.parses THEN ParseError
    ELSE IF r.error # "" THEN Err(r.error)
    ELSE Err(fallback)

\* ------------------------------------------------------------------- Init
\* The uploadFile calls that may run together, and the locals of one that
\* has not started.
CallIds == {1, 2}
NoCall ==
    [ pc |-> "idle",
      sdk |-> [endpoint |-> "", wallet |-> NoWallet, keypair |-> NoKeypair],
      bucket |-> "", name |-> <<>>, size |-> 0, signer |-> "",
      uploadId |-> "", key |-> <<>>, totalParts |-> 0, partNumber |-> 0,
      uploadedParts |-> <<>>, requests |-> <<>>, replies |-> <<>>,
      events |-> <<>>, outcome |-> "none" ]

\* No call has ended yet.
NoPrevious ==
    [ op |-> "none", bucket |-> "", key |-> <<>>, size |-> 0, msg |-> NoMsg,
      kind |-> "none", success |-> FALSE ]

Init ==
    /\ sdk \in { Construct("https://v2.shdwdrive.com", a) : a \in Auths }
    /\ serverObjects = {}
    /\ op = "none"
    /\ pc = "idle"
    /\ args = NoArgs
    /\ path = "none"
    /\ messageToSign = NoMsg
    /\ signature = NoSig
    /\ signer = ""
    /\ filename = <<>>
    /\ uploadId = ""
    /\ key = <<>>
    /\ totalParts = 0
    /\ partNumber = 0
    /\ uploadedParts = <<>>
    /\ error = NoErr
    /\ requests = <<>>
    /\ replies = <<>>
    /\ listing = [seen |-> FALSE, resp |-> NetFail]
    /\ events = <<>>
    /\ result = NoResult
    /\ previous = NoPrevious
    /\ calls = [c \in CallIds |-> NoCall]

\* A call starts with fresh locals and no events.
FreshLocals ==
    /\ signature' = NoSig
    /\ signer' = ""
    /\ uploadId' = ""
    /\ key' = <<>>
    /\ totalParts' = 0
    /\ partNumber' = 0
    /\ uploadedParts' = <<>>
    /\ listing' = [seen |-> FALSE, resp |-> NetFail]
    /\ replies' = <<>>
    /\ events' = <<>>

\* The error leaves the function: into uploadFile's catch block.
Throw(e) ==
    /\ error' = e
    /\ pc' = "catch"

\* --------------------------------------------------------------- uploadFile
\* uploadFile called with the arguments a, up to the first await: the size
\* test, then the message of the chosen path is built and signMessage is
\* called.
UploadStart(a) ==
    /\ pc = "idle"
    /\ op' = "upload"
    /\ args' = a
    /\ FreshLocals
    /\ filename' = <<>>
    /\ error' = NoErr
    /\ requests' = <<>>
    /\ result' = NoResult
    /\ IF UseSmallPath(a.size)
       THEN /\ path' = "small"
            /\ messageToSign' = UploadMessage(a.bucket, a.name)
       ELSE /\ path' = "large"
            /\ messageToSign' = InitMessage(a.bucket, a.name, a.size)
    /\ pc' = "sign"
    /\ UNCHANGED <<calls, previous, sdk, serverObjects>>

\* A caller of the SDK calls uploadFile.
UploadFile ==
    \E b \in Buckets, name \in FileNames, size \in FileSizes,
       dir \in Directories, sink \in BOOLEAN :
        UploadStart([NoArgs EXCEPT !.bucket = b, !.name = name, !.size = size,
                                   !.directory = dir, !.hasSink = sink])

\* ------------------------------------------------- the CLI's upload command
\* Variant: only one slash is taken off each end.
StripSlashes_once(s) ==
    LET t == IF s # <<>> /\ Head(s) = "/" THEN Tail(s) ELSE s
    IN IF t # <<>> /\ t[Len(t)] = "/" THEN SubSeq(t, 1, Len(t) - 1) ELSE t

\* .replace(/^\/+|\/+$/g, ''): the run of slashes at the start and the run
\* of slashes at the end are removed.
RECURSIVE DropLeading(_)
DropLeading(s) ==
    IF s # <<>> /\ Head(s) = "/" THEN DropLeading(Tail(s)) ELSE s
RECURSIVE DropTrailing(_)
DropTrailing(s) ==
    IF s # <<>> /\ s[Len(s)] = "/"
    THEN DropTrailing(SubSeq(s, 1, Len(s) - 1))
    ELSE s
StripSlashes(s) == DropTrailing(DropLeading(s))

\* .replace(/\/+/g, '/'): every run of slashes becomes one slash.
RECURSIVE CollapseSlashes(_)
CollapseSlashes(s) ==
    IF Len(s) < 2 THEN s
    ELSE IF s[1] = "/" /\ s[2] = "/" THEN CollapseSlashes(Tail(s))
    ELSE <<s[1]>> \o CollapseSlashes(Tail(s))

\* options.folder ? options.folder.replace(...).replace(...) : ''
NormalizeDirectory(folder) ==
    IF folder = <<>> THEN <<>> ELSE CollapseSlashes(StripSlashes(folder))

\* The action of the upload command from the folder clean-up on: the
\* directory is computed and sdk.uploadFile is called with it and a sink.
UploadCommand ==
    /\ pc = "idle"
    /\ \E b \in Buckets, name \in FileNames, size \in FileSizes, f \in Folders :
        UploadStart([NoArgs EXCEPT !.bucket = b, !.name = name, !.size = size,
                                   !.folder = f,
                                   !.directory = NormalizeDirectory(f),
                                   !.hasSink = TRUE])

\* The CLI builds its client from a keypair file.
InitCli ==
    /\ Init
    /\ sdk.keypair.present

NextCli == UploadCommand

\* The upload command up to the call of sdk.uploadFile.
SpecCli == InitCli /\ [][NextCli]_vars

\* signMessage settles; then getSigner, and the first request is sent.
UploadSigned ==
    \E o \in SignOutcomes(sdk, messageToSign) :
        /\ op = "upload"
        /\ pc = "sign"
        /\ IF ~o.ok
           THEN /\ Throw(o.err)
                /\ UNCHANGED <<signature, signer, requests>>
           ELSE /\ signature' = o.sig
                /\ IF ~GetSigner(sdk).ok
                   THEN /\ Throw(GetSigner(sdk).err)
                        /\ UNCHANGED <<signer, requests>>
                   ELSE /\ signer' = GetSigner(sdk).value
                        /\ error' = error
                        /\ IF path = "small"
                           THEN /\ requests' = Append(requests,
                                      UploadReq(args.bucket, args.name, args.size,
                                                o.sig, GetSigner(sdk).value))
                                /\ pc' = "await_upload"
                           ELSE /\ requests' = Append(requests,
                                      CreateReq(args.bucket, args.name, args.size,
                                                o.sig, GetSigner(sdk).value))
                                /\ pc' = "await_create"
        /\ UNCHANGED << calls, previous, sdk, serverObjects, op, args, path, messageToSign,
                        filename, uploadId, key, totalParts, partNumber,
                        uploadedParts, replies, listing, events, result >>

\* uploadSmallFile after fetch: !response.ok throws, else response.json()
\* is returned.  uploadSmallFile never calls onProgress.
RecvUploadFrom(rs) ==
    \E r \in rs :
        /\ op = "upload"
        /\ pc = "await_upload"
        /\ replies' = Append(replies, UploadReply(r))
        /\ IF ~r.net THEN /\ Throw(FetchError)
                          /\ UNCHANGED <<result, serverObjects>>
           ELSE IF ~r.ok THEN /\ Throw(SmallUploadError(r))
                              /\ UNCHANGED <<result, serverObjects>>
           ELSE /\ serverObjects' = serverObjects \cup {<<args.bucket, args.name>>}
                /\ IF ~r.parses
                   THEN /\ Throw(ParseError)
                        /\ UNCHANGED result
                   ELSE /\ result' = [NoResult EXCEPT !.kind = "returned",
                                        !.success = TRUE, !.message = r.message,
                                        !.location = <<args.bucket>> \o args.name]
                        /\ pc' = "done"
                        /\ error' = error
        /\ UNCHANGED << calls, previous, sdk, op, args, path, messageToSign, signature, signer,
                        filename, uploadId, key, totalParts, partNumber,
                        uploadedParts, requests, listing, events >>

RecvUpload == RecvUploadFrom(Responses)

\* Variant: the next two parts are sent without waiting in between.
ForLoop_twoAtOnce(n, tp, parts, uid, k) ==
    /\ partNumber' = n
    /\ IF n < tp
       THEN /\ requests' = Append(Append(requests,
                  PartReq(args.bucket, args.name, args.size, uid, n, k, signer)),
                  PartReq(args.bucket, args.name, args.size, uid, n + 1, k, signer))
            /\ pc' = "await_part"
       ELSE IF n = tp
       THEN /\ requests' = Append(requests,
                  PartReq(args.bucket, args.name, args.size, uid, n, k, signer))
            /\ pc' = "await_part"
       ELSE /\ requests' = Append(requests,
                  CompleteReq(args.bucket, uid, k, parts, signer))
            /\ pc' = "await_complete"

\* Variant: the complete request is built from the list as it was before
\* the last part was pushed.
ForLoop_stale(n, tp, parts, uid, k) ==
    /\ partNumber' = n
    /\ IF n <= tp
       THEN /\ requests' = Append(requests,
                  PartReq(args.bucket, args.name, args.size, uid, n, k, signer))
            /\ pc' = "await_part"
       ELSE /\ requests' = Append(requests,
                  CompleteReq(args.bucket, uid, k, uploadedParts, signer))
            /\ pc' = "await_complete"

\* Variant: after the last part the function waits for something that was
\* never requested, and the complete request is not sent.
ForLoop_waits(n, tp, parts, uid, k) ==
    /\ partNumber' = n
    /\ IF n <= tp
       THEN /\ requests' = Append(requests,
                  PartReq(args.bucket, args.name, args.size, uid, n, k, signer))
            /\ pc' = "await_part"
       ELSE /\ requests' = requests
            /\ pc' = "await_nothing"

\* The head of the for loop of uploadLargeFile at partNumber = n: the next
\* part is sent while n <= totalParts, the complete request after the loop.
ForLoop(n, tp, parts, uid, k) ==
    /\ partNumber' = n
    /\ IF n <= tp
       THEN /\ requests' = Append(requests,
                  PartReq(args.bucket, args.name, args.size, uid, n, k, signer))
            /\ pc' = "await_part"
       ELSE /\ requests' = Append(requests,
                  CompleteReq(args.bucket, uid, k, parts, signer))
            /\ pc' = "await_complete"

\* Variant: the status of the create response is not looked at.
CreateFailed_anyStatus(r) == ~r.net \/ ~r.parses

\* The create call does not yield an uploadId and a key: fetch rejected,
\* !initResponse.ok, or the body does not parse.
CreateFailed(r) == ~r.net \/ ~r.ok \/ ~r.parses

\* The create response arrives: uploadId and key are read from its body,
\* totalParts is computed, and the loop starts at part 1.
RecvCreateFrom(rs) ==
    \E r \in rs :
        /\ op = "upload"
        /\ pc = "await_create"
        /\ replies' = Append(replies, Reply(r))
        /\ IF CreateFailed(r)
           THEN /\ Throw(IF ~r.net THEN FetchError
                         ELSE IF ~r.ok
                         THEN JsonError(r, "Failed to initialize multipart upload")
                         ELSE ParseError)
                /\ UNCHANGED << uploadId, key, totalParts, partNumber,
                                uploadedParts, requests >>
           ELSE /\ uploadId' = r.uploadId
                /\ key' = r.key
                /\ totalParts' = TotalParts(args.size)
                /\ uploadedParts' = <<>>
                /\ error' = error
                /\ ForLoop(1, TotalParts(args.size), <<>>, r.uploadId, r.key)
        /\ UNCHANGED << calls, previous, sdk, serverObjects, op, args, path, messageToSign,
                        signature, signer, filename, listing, events, result >>

RecvCreate == RecvCreateFrom(CreateResponses)

\* The response to part partNumber arrives: !ok throws; else the ETag is
\* pushed, progress is reported and the loop goes on.
RecvPart ==
    \E r \in PartResponses :
        /\ op = "upload"
        /\ pc = "await_part"
        /\ replies' = Append(replies, Reply(r))
        /\ IF ~r.net \/ ~r.ok \/ ~r.parses
           THEN /\ Throw(IF ~r.net THEN FetchError
                         ELSE IF ~r.ok THEN PartError(partNumber)
                         ELSE ParseError)
                /\ UNCHANGED <<partNumber, uploadedParts, requests, events>>
           ELSE /\ uploadedParts' = PushPart(uploadedParts, r.ETag, partNumber)
                /\ events' = Emit(events, args.hasSink, "uploading",
                                  PartProgress(partNumber, totalParts))
                /\ error' = error
                /\ ForLoop(partNumber + 1, totalParts,
                           PushPart(uploadedParts, r.ETag, partNumber),
                           uploadId, key)
        /\ UNCHANGED << calls, previous, sdk, serverObjects, op, args, path, messageToSign,
                        signature, signer, filename, uploadId, key, totalParts,
                        listing, result >>

\* The complete response arrives: !ok throws; else 100 is reported and the
\* body is read (completeResponse.json()).
RecvComplete ==
    \E r \in Responses :
        /\ op = "upload"
        /\ pc = "await_complete"
        /\ replies' = Append(replies, CompleteReply(r))
        /\ IF ~r.net \/ ~r.ok
           THEN /\ Throw(IF ~r.net THEN FetchError
                         ELSE JsonError(r, "Failed to complete multipart upload"))
                /\ UNCHANGED <<events, serverObjects>>
           ELSE /\ events' = Emit(events, args.hasSink, "uploading", FinalProgress)
                /\ serverObjects' = serverObjects \cup {<<args.bucket, key>>}
                /\ pc' = "complete_body"
                /\ error' = error
        /\ UNCHANGED << calls, previous, sdk, op, args, path, messageToSign, signature, signer,
                        filename, uploadId, key, totalParts, partNumber,
                        uploadedParts, requests, listing, result >>

\* `return completeResponse.json()` settles: the parsed body is the result,
\* a body that is not JSON rejects.
CompleteBody ==
    /\ op = "upload"
    /\ pc = "complete_body"
    /\ IF ~replies[Len(replies)].parses
       THEN /\ Throw(ParseError)
            /\ UNCHANGED result
       ELSE /\ result' = [NoResult EXCEPT !.kind = "returned",
                            !.success = TRUE,
                            !.location = <<args.bucket>> \o key]
            /\ pc' = "done"
            /\ error' = error
    /\ UNCHANGED << calls, previous, sdk, serverObjects, op, args, path, messageToSign,
                    signature, signer, filename, uploadId, key, totalParts,
                    partNumber, uploadedParts, requests, replies, listing,
                    events >>

\* Variant: the catch block rethrows without telling the sink.
UploadCatch_silent ==
    /\ op = "upload"
    /\ pc = "catch"
    /\ result' = [NoResult EXCEPT !.kind = "raised", !.error = error]
    /\ pc' = "done"
    /\ UNCHANGED << calls, previous, sdk, serverObjects, op, args, path, messageToSign,
                    signature, signer, filename, uploadId, key, totalParts,
                    partNumber, uploadedParts, error, requests, replies,
                    listing, events >>

\* The catch block of uploadFile: one 'error' event with progress 0, then
\* the caught error is rethrown to the caller.
UploadCatch ==
    /\ op = "upload"
    /\ pc = "catch"
    /\ events' = Emit(events, args.hasSink, "error", [num |-> 0, den |-> 1])
    /\ result' = [NoResult EXCEPT !.kind = "raised", !.error = error]
    /\ pc' = "done"
    /\ UNCHANGED << calls, previous, sdk, serverObjects, op, args, path, messageToSign,
                    signature, signer, filename, uploadId, key, totalParts,
                    partNumber, uploadedParts, error, requests, replies,
                    listing >>

\* --------------------------------------------------------------- deleteFile
\* new URL(fileUrl) succeeds on an absolute URL: scheme, "//", host.
IsAbsoluteUrl(u) == Len(u) >= 3 /\ u[1] = "https:" /\ u[2] = "" /\ u[3] # ""

\* url.pathname.split('/'): the pathname starts with '/', so the first
\* element is empty; a URL without a path has the pathname "/".
PathnameParts(u) ==
    IF Len(u) = 3 THEN <<"", "">> ELSE <<"">> \o SubSeq(u, 4, Len(u))

\* Variant: the last matching part is taken.
FindIndex_last(parts, b) ==
    IF \E i \in 1..Len(parts) : parts[i] = b
    THEN (CHOOSE i \in 1..Len(parts) :
              /\ parts[i] = b
              /\ \A j \in (i + 1)..Len(parts) : parts[j] # b) - 1
    ELSE -1

\* parts.findIndex(part => part === bucket): 0-based, -1 if there is none.
FindIndex(parts, b) ==
    IF \E i \in 1..Len(parts) : parts[i] = b
    THEN (CHOOSE i \in 1..Len(parts) :
              /\ parts[i] = b
              /\ \A j \in 1..(i - 1) : parts[j] # b) - 1
    ELSE -1

\* The key deleteFile works on.
ResolveKey(b, u) ==
    IF ~IsAbsoluteUrl(u) THEN u
    ELSE LET parts == PathnameParts(u)
             bucketIndex == FindIndex(parts, b)
         IN  IF bucketIndex # -1 /\ Len(parts) > bucketIndex + 1
             THEN SubSeq(parts, bucketIndex + 2, Len(parts))
             ELSE u

\* Responses to the list request: any status, and a parsed body with or
\* without an objects member listing any of the keys.
ListResponses ==
    {NetFail}
      \cup
    { [NetFail EXCEPT !.net = TRUE, !.ok = o] : o \in BOOLEAN }
      \cup
    { [NetFail EXCEPT !.net = TRUE, !.ok = o, !.parses = TRUE] : o \in BOOLEAN }
      \cup
    { [NetFail EXCEPT !.net = TRUE, !.ok = o, !.parses = TRUE,
                      !.hasObjects = TRUE, !.objects = objs] :
        o \in BOOLEAN, objs \in SUBSET ObjectKeys }

\* Variant: any non-empty listing counts as a hit.
FileExistsResult_any(r, k) ==
    r.net /\ r.ok /\ r.parses /\ r.hasObjects /\ r.objects # {}

\* Variant: the status of the list response is not looked at.
FileExistsResult_anyStatus(r, k) ==
    r.net /\ r.parses /\ r.hasObjects /\ k \in r.objects

\* The value fileExists returns for a list response: false unless
\* response.ok and data.objects has an entry with that key.
FileExistsResult(r, k) ==
    r.net /\ r.ok /\ r.parses /\ r.hasObjects /\ k \in r.objects

NotFoundMessage == "File does not exist or has already been deleted"

\* deleteFile up to the first await: the key is resolved, fileExists calls
\* getSigner (outside its try) and sends the list request.
DeleteFile ==
    \E b \in Buckets, u \in FileUrls :
        /\ pc = "idle"
        /\ op' = "delete"
        /\ args' = [NoArgs EXCEPT !.bucket = b, !.fileUrl = u]
        /\ FreshLocals
        /\ path' = "none"
        /\ messageToSign' = NoMsg
        /\ error' = NoErr
        /\ filename' = ResolveKey(b, u)
        /\ IF ~GetSigner(sdk).ok
           THEN /\ requests' = <<>>
                /\ result' = [NoResult EXCEPT !.kind = "raised",
                                              !.error = GetSigner(sdk).err]
                /\ pc' = "done"
           ELSE /\ requests' = <<ListReq(b, GetSigner(sdk).value)>>
                /\ result' = NoResult
                /\ pc' = "await_list"
        /\ UNCHANGED <<calls, previous, sdk, serverObjects>>

\* fileExists settles: false returns the not-found result, true goes on to
\* build the delete message and sign it.
RecvListFrom(rs) ==
    \E r \in rs :
        /\ op = "delete"
        /\ pc = "await_list"
        /\ replies' = Append(replies, Reply(r))
        /\ listing' = [seen |-> TRUE, resp |-> r]
        /\ IF ~FileExistsResult(r, filename)
           THEN /\ result' = [NoResult EXCEPT !.kind = "returned",
                                !.success = FALSE, !.message = NotFoundMessage]
                /\ pc' = "done"
                /\ UNCHANGED messageToSign
           ELSE /\ messageToSign' = DeleteMessage(args.bucket, filename)
                /\ pc' = "sign"
                /\ UNCHANGED result
        /\ UNCHANGED << calls, previous, sdk, serverObjects, op, args, path, signature, signer,
                        filename, uploadId, key, totalParts, partNumber,
                        uploadedParts, error, requests, events >>

RecvList == RecvListFrom(ListResponses)

\* signMessage settles in deleteFile: an error goes straight to the caller,
\* else getSigner and the delete request.
DeleteSigned ==
    \E o \in SignOutcomes(sdk, messageToSign) :
        /\ op = "delete"
        /\ pc = "sign"
        /\ IF ~o.ok \/ ~GetSigner(sdk).ok
           THEN /\ result' = [NoResult EXCEPT !.kind = "raised",
                                !.error = IF ~o.ok THEN o.err
                                          ELSE GetSigner(sdk).err]
                /\ pc' = "done"
                /\ signature' = IF o.ok THEN o.sig ELSE signature
                /\ UNCHANGED <<signer, requests>>
           ELSE /\ signature' = o.sig
                /\ signer' = GetSigner(sdk).value
                /\ requests' = Append(requests,
                      DeleteReq(args.bucket, filename, o.sig, GetSigner(sdk).value))
                /\ pc' = "await_delete"
                /\ UNCHANGED result
        /\ UNCHANGED << calls, previous, sdk, serverObjects, op, args, path, messageToSign,
                        filename, uploadId, key, totalParts, partNumber,
                        uploadedParts, error, replies, listing, events >>

\* Variant: the status is looked at before the body is parsed.
DeleteOutcome_statusFirst(r) ==
    IF ~r.net THEN [NoResult EXCEPT !.kind = "raised", !.error = FetchError]
    ELSE IF ~r.ok
    THEN [NoResult EXCEPT !.kind = "raised",
            !.error = IF r.parses /\ r.error # "" THEN Err(r.error)
                      ELSE Err("Delete failed")]
    ELSE IF ~r.parses
    THEN [NoResult EXCEPT !.kind = "raised",
                          !.error = Err("Failed to parse server response")]
    ELSE [NoResult EXCEPT !.kind = "returned", !.success = TRUE,
            !.message = IF r.message # "" THEN r.message
                        ELSE "File deleted successfully"]

\* Variant: any parsed response counts as a successful deletion.
DeleteOutcome_anyStatus(r) ==
    IF ~r.net THEN [NoResult EXCEPT !.kind = "raised", !.error = FetchError]
    ELSE IF ~r.parses
    THEN [NoResult EXCEPT !.kind = "raised",
                          !.error = Err("Failed to parse server response")]
    ELSE [NoResult EXCEPT !.kind = "returned", !.success = TRUE,
            !.message = IF r.message # "" THEN r.message
                        ELSE "File deleted successfully"]

\* What deleteFile hands to its caller once the delete response is in: the
\* body is parsed first, then the status is looked at.
DeleteOutcome(r) ==
    IF ~r.net THEN [NoResult EXCEPT !.kind = "raised", !.error = FetchError]
    ELSE IF ~r.parses
    THEN [NoResult EXCEPT !.kind = "raised",
                          !.error = Err("Failed to parse server response")]
    ELSE IF ~r.ok
    THEN [NoResult EXCEPT !.kind = "raised",
            !.error = IF r.error # "" THEN Err(r.error)
                      ELSE Err("Delete failed")]
    ELSE [NoResult EXCEPT !.kind = "returned", !.success = TRUE,
            !.message = IF r.message # "" THEN r.message
                        ELSE "File deleted successfully"]

\* The delete response arrives.
RecvDelete ==
    \E r \in Responses :
        /\ op = "delete"
        /\ pc = "await_delete"
        /\ replies' = Append(replies, Reply(r))
        /\ serverObjects' =
             IF r.net /\ r.ok
             THEN serverObjects \ {<<requests[Len(requests)].bucket,
                                     requests[Len(requests)].filename>>}
             ELSE serverObjects
        /\ result' = DeleteOutcome(r)
        /\ pc' = "done"
        /\ UNCHANGED << calls, previous, sdk, op, args, path, messageToSign, signature, signer,
                        filename, uploadId, key, totalParts, partNumber,
                        uploadedParts, error, requests, listing, events >>

\* The promise of the call has settled and the caller has its outcome: the
\* locals of the call go out of scope.  The client instance and the remote
\* objects stay.
CallSettled ==
    /\ pc = "done"
    /\ pc' = "idle"
    /\ op' = "none"
    /\ args' = NoArgs
    /\ path' = "none"
    /\ messageToSign' = NoMsg
    /\ filename' = <<>>
    /\ error' = NoErr
    /\ requests' = <<>>
    /\ result' = NoResult
    /\ FreshLocals
    /\ UNCHANGED <<calls, previous, sdk, serverObjects>>

\* ----------------------------------------------- deleteFile called again
\* The keys the service holds in bucket b.
StoredKeys(b) == { k \in ObjectKeys : <<b, k>> \in serverObjects }

\* List responses of a service whose listing is what it holds.
HonestListResponses(b) ==
    { r \in ListResponses : r.hasObjects => r.objects = StoredKeys(b) }

RecvListHonest == RecvListFrom(HonestListResponses(args.bucket))

\* A deleteFile call has settled; how it ended is remembered for the next.
DeleteSettled ==
    /\ pc = "done"
    /\ op = "delete"
    /\ previous' = [NoPrevious EXCEPT !.op = "delete", !.bucket = args.bucket,
                      !.key = filename, !.msg = messageToSign,
                      !.kind = result.kind, !.success = result.success]
    /\ pc' = "idle"
    /\ op' = "none"
    /\ args' = NoArgs
    /\ path' = "none"
    /\ messageToSign' = NoMsg
    /\ filename' = <<>>
    /\ error' = NoErr
    /\ requests' = <<>>
    /\ result' = NoResult
    /\ FreshLocals
    /\ UNCHANGED <<calls, sdk, serverObjects>>

\* The service holds objects from earlier uploads.
InitStored ==
    /\ sdk \in { Construct("https://v2.shdwdrive.com", a) : a \in Auths }
    /\ serverObjects \in SUBSET (Buckets \X ObjectKeys)
    /\ op = "none"
    /\ pc = "idle"
    /\ args = NoArgs
    /\ path = "none"
    /\ messageToSign = NoMsg
    /\ signature = NoSig
    /\ signer = ""
    /\ filename = <<>>
    /\ uploadId = ""
    /\ key = <<>>
    /\ totalParts = 0
    /\ partNumber = 0
    /\ uploadedParts = <<>>
    /\ error = NoErr
    /\ requests = <<>>
    /\ replies = <<>>
    /\ listing = [seen |-> FALSE, resp |-> NetFail]
    /\ events = <<>>
    /\ result = NoResult
    /\ previous = NoPrevious
    /\ calls = [c \in CallIds |-> NoCall]

NextRepeatDelete ==
    \/ DeleteFile
    \/ RecvListHonest
    \/ DeleteSigned
    \/ RecvDelete
    \/ DeleteSettled

\* deleteFile called over and over against a service with an honest listing.
SpecRepeatDelete == InitStored /\ [][NextRepeatDelete]_vars

\* ------------------------------------------------ uploads running together
\* Two client instances, one on a keypair and one on a wallet; the calls
\* run on either.  The files need two and three parts.
ClientInstances ==
    { Construct("https://v2.shdwdrive.com",
                [tag |-> "keypair", wallet |-> NoWallet,
                 keypair |-> [present |-> TRUE, publicKey |-> "KPK"]]),
      Construct("https://v2.shdwdrive.com",
                [tag |-> "wallet", keypair |-> NoKeypair,
                 wallet |-> [present |-> TRUE, publicKey |-> "WPK",
                             hasSignMessage |-> TRUE]]) }
ConcurrentSizes == {CHUNK_SIZE + 1, 2 * CHUNK_SIZE + 1}

\* Create responses of a service that opens one of two sessions, each with
\* its own uploadId and key.
SessionResponses ==
    { r \in CreateResponses :
        (r.ok /\ r.parses) => ((r.uploadId = "u1") <=> (r.key = <<"a.txt">>)) }

\* What is not a local of these calls or the service.
singleCall ==
    << sdk, op, pc, args, path, messageToSign, signature, signer, filename,
       uploadId, key, totalParts, partNumber, uploadedParts, error, requests,
       replies, listing, events, result, previous >>

\* Variant: the parts list is one array that all calls push to.
PartsOf_shared(cs, c) == cs[1].uploadedParts

\* `const uploadedParts = []`: each call has its own list.
PartsOf(cs, c) == cs[c].uploadedParts

\* The call k throws: uploadFile's catch reports the error and rethrows.
Failed(k) ==
    [k EXCEPT !.pc = "done", !.outcome = "raised",
              !.events = Emit(@, TRUE, "error", [num |-> 0, den |-> 1])]

\* The head of the part loop of call k at partNumber = n.
LoopHead(k, n, parts) ==
    IF n <= k.totalParts
    THEN [k EXCEPT !.partNumber = n, !.pc = "await_part",
            !.requests = Append(@, PartReq(k.bucket, k.name, k.size,
                                           k.uploadId, n, k.key, k.signer))]
    ELSE [k EXCEPT !.partNumber = n, !.pc = "await_complete",
            !.requests = Append(@, CompleteReq(k.bucket, k.uploadId, k.key,
                                               parts, k.signer))]

\* uploadFile is called with a file above 5 MiB and a sink while other
\* calls may be under way.
ConcUploadFile ==
    \E c \in CallIds, i \in ClientInstances, b \in Buckets,
       name \in FileNames, size \in ConcurrentSizes :
        /\ calls[c].pc = "idle"
        /\ calls' = [calls EXCEPT ![c] =
              [NoCall EXCEPT !.pc = "sign", !.sdk = i, !.bucket = b,
                             !.name = name, !.size = size]]
        /\ UNCHANGED <<singleCall, serverObjects>>

\* signMessage of a call settles; then getSigner and the create request.
ConcSigned ==
    \E c \in CallIds :
        LET k == calls[c] IN
        \E o \in SignOutcomes(k.sdk, InitMessage(k.bucket, k.name, k.size)) :
            /\ k.pc = "sign"
            /\ calls' = [calls EXCEPT ![c] =
                  IF ~o.ok \/ ~GetSigner(k.sdk).ok
                  THEN Failed(k)
                  ELSE [k EXCEPT !.pc = "await_create",
                          !.signer = GetSigner(k.sdk).value,
                          !.requests = <<CreateReq(k.bucket, k.name, k.size,
                                           o.sig, GetSigner(k.sdk).value)>>]]
            /\ UNCHANGED <<singleCall, serverObjects>>

\* The create response of a call arrives.
ConcRecvCreate ==
    \E c \in CallIds, r \in SessionResponses :
        LET k == [calls[c] EXCEPT !.replies = Append(@, Reply(r))] IN
        /\ calls[c].pc = "await_create"
        /\ calls' = [calls EXCEPT ![c] =
              IF CreateFailed(r) THEN Failed(k)
              ELSE LoopHead([k EXCEPT !.uploadId = r.uploadId, !.key = r.key,
                                      !.totalParts = TotalParts(k.size)],
                            1, <<>>)]
        /\ UNCHANGED <<singleCall, serverObjects>>

\* The response to the part a call is waiting for arrives.
ConcRecvPart ==
    \E c \in CallIds, r \in PartResponses :
        LET k == [calls[c] EXCEPT !.replies = Append(@, Reply(r))]
            parts == PushPart(PartsOf(calls, c), r.ETag, k.partNumber)
        IN
        /\ calls[c].pc = "await_part"
        /\ calls' = [calls EXCEPT ![c] =
              IF ~r.net \/ ~r.ok \/ ~r.parses THEN Failed(k)
              ELSE LoopHead([k EXCEPT !.uploadedParts = parts,
                               !.events = Emit(@, TRUE, "uploading",
                                   PartProgress(k.partNumber, k.totalParts))],
                            k.partNumber + 1, parts)]
        /\ UNCHANGED <<singleCall, serverObjects>>

\* The complete response of a call arrives and its body is read.
ConcRecvComplete ==
    \E c \in CallIds, r \in Responses :
        LET k == [calls[c] EXCEPT !.replies = Append(@, Reply(r))]
            k100 == [k EXCEPT !.events =
                        Emit(@, TRUE, "uploading", FinalProgress)]
        IN
        /\ calls[c].pc = "await_complete"
        /\ calls' = [calls EXCEPT ![c] =
              IF ~r.net \/ ~r.ok THEN Failed(k)
              ELSE IF ~r.parses THEN Failed(k100)
              ELSE [k100 EXCEPT !.pc = "done", !.outcome = "returned"]]
        /\ serverObjects' = IF r.net /\ r.ok
                            THEN serverObjects \cup {<<k.bucket, k.key>>}
                            ELSE serverObjects
        /\ UNCHANGED singleCall

NextConcurrent ==
    \/ ConcUploadFile
    \/ ConcSigned
    \/ ConcRecvCreate
    \/ ConcRecvPart
    \/ ConcRecvComplete

\* Two multipart uploads whose requests and responses interleave freely.
SpecConcurrent == InitCli /\ [][NextConcurrent]_vars

\* ------------------------------------------- calls one after the other
\* The service cannot be reached for uploads: fetch rejects.
RecvUploadDown == RecvUploadFrom({NetFail})
RecvCreateDown == RecvCreateFrom({NetFail})

\* A call has settled; its arguments, the message it built and how it ended
\* are remembered for the next.
CallRecorded ==
    /\ pc = "done"
    /\ previous' = [NoPrevious EXCEPT !.op = op, !.bucket = args.bucket,
                      !.key = IF op = "delete" THEN filename ELSE args.name,
                      !.size = args.size, !.msg = messageToSign,
                      !.kind = result.kind, !.success = result.success]
    /\ pc' = "idle"
    /\ op' = "none"
    /\ args' = NoArgs
    /\ path' = "none"
    /\ messageToSign' = NoMsg
    /\ filename' = <<>>
    /\ error' = NoErr
    /\ requests' = <<>>
    /\ result' = NoResult
    /\ FreshLocals
    /\ UNCHANGED <<calls, sdk, serverObjects>>

NextRepeatCall ==
    \/ UploadFile
    \/ UploadSigned
    \/ RecvUploadDown
    \/ RecvCreateDown
    \/ UploadCatch
    \/ DeleteFile
    \/ RecvListHonest
    \/ DeleteSigned
    \/ RecvDelete
    \/ CallRecorded

\* Calls made one after the other while uploads cannot reach the service:
\* every call gets as far as building and signing its message.
SpecRepeatCall == InitStored /\ [][NextRepeatCall]_vars

\* ------------------------------------------------------------ specification
Next ==
    \/ UploadFile
    \/ UploadSigned
    \/ RecvUpload
    \/ RecvCreate
    \/ RecvPart
    \/ RecvComplete
    \/ CompleteBody
    \/ UploadCatch
    \/ DeleteFile
    \/ RecvList
    \/ DeleteSigned
    \/ RecvDelete
    \/ CallSettled

Spec == Init /\ [][Next]_vars

\* ------------------------------------------------------- pending awaits
\* `await this.signMessage(...)` settles, with a signature or an error.
SigningCompletes == UploadSigned \/ DeleteSigned

\* `await fetch(...)` settles, with a response or a rejection (the body of
\* the response is read in the same step, except for the complete response).
RequestCompletes ==
    RecvUpload \/ RecvCreate \/ RecvPart \/ RecvComplete \/ RecvList \/ RecvDelete

\* The steps the function takes on its own once an await has settled:
\* `return completeResponse.json()` and the catch block of uploadFile.
Continues == CompleteBody \/ UploadCatch

\* The same program where no await stays pending for ever.  Nothing obliges
\* the caller to make a call, or to make another one.
SpecLive ==
    /\ Init
    /\ [][Next]_vars
    /\ WF_vars(SigningCompletes)
    /\ WF_vars(RequestCompletes)
    /\ WF_vars(Continues)

\* ================================================================== claims
\* Shorthands for reading the logs of the call in progress.
EpUpload == "/v1/object/upload"
EpCreate == "/v1/object/multipart/create"
EpPart == "/v1/object/multipart/upload-part"
EpComplete == "/v1/object/multipart/complete"
EpList == "/v1/object/list"
EpDelete == "/v1/object/delete"

Sent(ep) == \E i \in 1..Len(requests) : requests[i].ep = ep
CountSent(ep) == Cardinality({i \in 1..Len(requests) : requests[i].ep = ep})
Returned == pc = "done" /\ result.kind = "returned"
Raised == pc = "done" /\ result.kind = "raised"

\* C1: uploadFile takes the single-request path (POST /v1/object/upload) iff
\* file.size <= 5 MiB = 5242880 and the multipart path (create first) iff
\* file.size > 5 MiB; sizes 0 and 5242880 use the single-request path; no
\* call sends requests of both paths.
C1_PathBySize ==
    op = "upload" =>
        /\ (path = "small") <=> (args.size <= 5242880)
        /\ (path = "large") <=> (args.size > 5242880)
        /\ args.size \in {0, 5242880} => path = "small"
        /\ \A i \in 1..Len(requests) :
              /\ requests[i].ep = EpUpload => args.size <= 5242880
              /\ requests[i].ep \in {EpCreate, EpPart, EpComplete}
                    => args.size > 5242880
        /\ args.size <= 5242880 =>
              \A i \in 1..Len(requests) : requests[i].ep = EpUpload
        /\ (args.size > 5242880 /\ requests # <<>>) =>
              /\ requests[1].ep = EpCreate
              /\ \A i \in 1..Len(requests) :
                    requests[i].ep \in {EpCreate, EpPart, EpComplete}
        /\ ~(Sent(EpUpload) /\ (Sent(EpCreate) \/ Sent(EpPart) \/ Sent(EpComplete)))

\* A file of exactly 5 MiB has been uploaded with the single request.
C1_Witness ==
    /\ op = "upload"
    /\ args.size = 5242880
    /\ Returned
    /\ Sent(EpUpload)

\* C2: a successful uploadFile has sent exactly 1 request (the upload) when
\* size <= 5 MiB and exactly 1 + ceil(size / 5 MiB) + 1 (one create, the
\* parts, one complete) when size > 5 MiB; no call, successful or failed,
\* ever sends more than that.  n = ceil(size / 5 MiB) is stated as
\* (n - 1) * 5 MiB < size <= n * 5 MiB.
C2_RequestCount ==
    op = "upload" =>
        /\ args.size <= 5242880 =>
              /\ Len(requests) <= 1
              /\ Returned => Len(requests) = 1 /\ requests[1].ep = EpUpload
        /\ args.size > 5242880 =>
              \A n \in 1..(MaxChunks + 2) :
                  ((n - 1) * 5242880 < args.size /\ args.size <= n * 5242880) =>
                      /\ Len(requests) <= n + 2
                      /\ Returned =>
                            /\ Len(requests) = n + 2
                            /\ CountSent(EpCreate) = 1
                            /\ CountSent(EpPart) = n
                            /\ CountSent(EpComplete) = 1
                            /\ requests[1].ep = EpCreate
                            /\ requests[n + 2].ep = EpComplete

\* A 12 MiB file has been uploaded with 1 + 3 + 1 requests.
C2_Witness ==
    /\ op = "upload"
    /\ args.size = 12 * 1024 * 1024
    /\ Returned
    /\ Len(requests) = 5

\* The upload-part requests sent so far, and the positions in the logs of
\* those that were answered with a 2xx response whose body gave an ETag.
PartRequests == SelectSeq(requests, LAMBDA q : q.ep = EpPart)
PartSucceeded(i) ==
    /\ i \in 1..Len(replies)
    /\ requests[i].ep = EpPart
    /\ replies[i].ok
    /\ replies[i].parses
SucceededParts == {i \in 1..Len(requests) : PartSucceeded(i)}

IsPrefix(a, b) == Len(a) <= Len(b) /\ \A i \in 1..Len(a) : a[i] = b[i]

\* State part of C3: numbering of the requests and of the accumulated list.
C3_Numbering ==
    (op = "upload" /\ path = "large") =>
        LET k == Len(PartRequests)
            j == Len(uploadedParts)
        IN  /\ \A i \in 1..k : PartRequests[i].partNumber = i
            /\ j <= k
            /\ j = Cardinality(SucceededParts)
            /\ \A i \in 1..j :
                  /\ uploadedParts[i].PartNumber = i
                  \* part i is request i + 1 (after the create request)
                  /\ PartSucceeded(i + 1)
                  /\ requests[i + 1].partNumber = i
            /\ Returned =>
                  /\ k = totalParts
                  /\ j = totalParts
                  /\ (totalParts - 1) * 5242880 < args.size
                  /\ args.size <= totalParts * 5242880

\* Step part of C3: within a call, what was appended stays as it is.
C3_AppendOnly ==
    (pc # "idle" /\ pc' # "idle") => IsPrefix(uploadedParts, uploadedParts')

\* C3: in a multipart upload the part numbers of the upload-part requests
\* sent so far are always 1..k ascending without gap or repeat, the
\* accumulated parts list is always the numbers 1..j (j <= k) of the parts
\* answered successfully, entries once appended are never reordered, removed
\* or changed, and on success k = j = totalParts = ceil(size / 5 MiB).
C3_PartOrder == [](C3_Numbering) /\ [][C3_AppendOnly]_vars

\* A three-part upload has returned with three accumulated parts.
C3_Witness ==
    /\ op = "upload"
    /\ Returned
    /\ Len(uploadedParts) = 3
    /\ Len(PartRequests) = 3

\* Sum of the lengths of the slices of the first n part requests.
RECURSIVE SumLengths(_)
SumLengths(n) ==
    IF n = 0 THEN 0
    ELSE (PartRequests[n].end - PartRequests[n].start) + SumLengths(n - 1)

\* C4: part n of a multipart upload covers bytes [(n-1)*5 MiB,
\* min(n*5 MiB, size)): the ranges start at 0, are contiguous and disjoint
\* and end at size, so their lengths sum to the size; every part but the last
\* is exactly 5 MiB, the last is between 1 byte and 5 MiB; totalParts >= 2.
C4_PartRanges ==
    (op = "upload" /\ path = "large" /\ Len(replies) >= 1 /\ replies[1].ok
        /\ replies[1].parses) =>
        LET k == Len(PartRequests)
        IN  /\ totalParts >= 2
            /\ \A n \in 1..k :
                  LET q == PartRequests[n]
                  IN  /\ q.start = (n - 1) * 5242880
                      /\ q.end = IF n * 5242880 <= args.size
                                 THEN n * 5242880 ELSE args.size
                      /\ n = 1 => q.start = 0
                      /\ n > 1 => q.start = PartRequests[n - 1].end
                      /\ n < totalParts => q.end - q.start = 5242880
                      /\ n = totalParts =>
                            /\ q.end = args.size
                            /\ q.end - q.start >= 1
                            /\ q.end - q.start <= 5242880
            /\ k <= totalParts
            /\ Returned => k = totalParts /\ SumLengths(k) = args.size

\* A 12 MiB file went up as 5 MiB, 5 MiB and 2 MiB.
C4_Witness ==
    /\ op = "upload"
    /\ Returned
    /\ args.size = 12 * 1024 * 1024
    /\ Len(PartRequests) = 3
    /\ PartRequests[3].end - PartRequests[3].start = 2 * 1024 * 1024

\* The 'uploading' events of the call, and the positions of its 'error' ones.
Uploading == SelectSeq(events, LAMBDA e : e.status = "uploading")
ErrorEvents == {i \in 1..Len(events) : events[i].status = "error"}

\* The complete request was answered with a 2xx status.
CompleteSucceeded ==
    \E i \in 1..Len(replies) : requests[i].ep = EpComplete /\ replies[i].ok

\* The fraction e.num / e.den is the number p.
IsPercent(e, p) == e.num = p * e.den

\* C5: in a multipart upload with a progress sink, one event is emitted
\* after each successfully answered part k with percent (k / totalParts) * 90,
\* then one event with percent 100 once the complete request has succeeded;
\* the non-error percents of a call are strictly increasing (30, 60, 90, 100
\* for 12 MiB), and the event of part k exists only once part k was answered
\* successfully.
C5_MultipartProgress ==
    (op = "upload" /\ path = "large" /\ args.hasSink) =>
        LET ups == Uploading
            j == Cardinality(SucceededParts)
        IN  /\ Len(ups) = j + (IF CompleteSucceeded THEN 1 ELSE 0)
            /\ \A k \in 1..j :
                  /\ ups[k].num * totalParts = (k * 90) * ups[k].den
                  /\ PartSucceeded(k + 1)
                  /\ requests[k + 1].partNumber = k
            /\ CompleteSucceeded =>
                  /\ j = totalParts
                  /\ IsPercent(ups[j + 1], 100)
            /\ \A i \in 1..(Len(ups) - 1) :
                  ups[i].num * ups[i + 1].den < ups[i + 1].num * ups[i].den
            /\ \A i \in 1..Len(events) :
                  events[i].status = "uploading" =>
                      \A h \in 1..(i - 1) : events[h].status = "uploading"
            /\ (Returned /\ args.size = 12 * 1024 * 1024) =>
                  /\ Len(ups) = 4
                  /\ IsPercent(ups[1], 30)
                  /\ IsPercent(ups[2], 60)
                  /\ IsPercent(ups[3], 90)
                  /\ IsPercent(ups[4], 100)

\* The sink of a 12 MiB upload has received its four events.
C5_Witness ==
    /\ op = "upload"
    /\ args.hasSink
    /\ args.size = 12 * 1024 * 1024
    /\ Returned
    /\ Len(events) = 4

\* C6: whenever uploadFile fails (signing, the single upload, create, a
\* part, complete, or reading a response body), exactly one 'error' event
\* with percent 0 is emitted to the sink, before the error reaches the
\* caller and as the last event of the call, and the error thrown is the one
\* the caller gets; a call that succeeds emits no 'error' event.
C6_ErrorEvent ==
    (op = "upload" /\ args.hasSink) =>
        /\ pc # "done" => ErrorEvents = {}
        /\ pc = "catch" => error # NoErr
        /\ Raised =>
              /\ ErrorEvents = {Len(events)}
              /\ Len(events) >= 1
              /\ IsPercent(events[Len(events)], 0)
              /\ result.error = error
              /\ error # NoErr
        /\ Returned =>
              /\ ErrorEvents = {}
              /\ signature # NoSig
              /\ \A i \in 1..Len(replies) : replies[i].ok /\ replies[i].parses
        /\ pc = "done" =>
              \/ Returned
              \/ Raised

\* The second part of a multipart upload failed after the first was reported.
C6_Witness ==
    /\ op = "upload"
    /\ args.hasSink
    /\ Raised
    /\ result.error = PartError(2)
    /\ Len(events) = 2
    /\ events[1].status = "uploading"
    /\ events[2].status = "error"

\* An 'uploading' event with percent 100 has been emitted.
Reported100 ==
    \E i \in 1..Len(events) :
        events[i].status = "uploading" /\ IsPercent(events[i], 100)

\* C7: a progress event with percent 100 is emitted only on successful
\* completion: in a call that emitted it, the call returns an outcome and no
\* 'error' event and no raised error follows (also when the body of the
\* successful complete response cannot be parsed).
C7_HundredOnlyOnSuccess ==
    (op = "upload" /\ Reported100) =>
        /\ pc # "catch"
        /\ ErrorEvents = {}
        /\ pc = "done" => result.kind = "returned"

\* C8: on the single-request path with a sink, a successful uploadFile
\* reports exactly one event to the sink, the terminal one.
C8_SmallTerminalEvent ==
    (op = "upload" /\ path = "small" /\ args.hasSink /\ Returned) =>
        /\ Len(events) = 1
        /\ events[1].status # "error"
        /\ IsPercent(events[1], 100)

\* The list request was answered 2xx with a parsed object list that has an
\* entry whose key is the resolved key.
ListedKey ==
    /\ listing.seen
    /\ listing.resp.net
    /\ listing.resp.ok
    /\ listing.resp.parses
    /\ listing.resp.hasObjects
    /\ filename \in listing.resp.objects

SigningErrors ==
    {Err("No signing method available"), Err("wallet signMessage rejected")}

\* C9 as stated: deleteFile sends the delete request if and only if the
\* preceding list request returned 2xx with the resolved key in its parsed
\* list; without the key it returns the not-found result, signs nothing and
\* does not contact the delete endpoint.
C9_DeleteIffListed ==
    (op = "delete" /\ pc = "done") =>
        /\ Sent(EpDelete) <=> ListedKey
        /\ (listing.seen /\ ~ListedKey) =>
              /\ result.kind = "returned"
              /\ result.success = FALSE
              /\ result.message = "File does not exist or has already been deleted"
              /\ signature = NoSig
              /\ ~Sent(EpDelete)

\* C9 amended: deleteFile sends the delete request only if the preceding
\* list request returned 2xx with the resolved key in its parsed list, and
\* in that case sends it unless signing the delete message fails (the call
\* then raises the signing error); without the key it returns the not-found
\* result, signs nothing and does not contact the delete endpoint.
C9_DeleteOnlyIfListed ==
    op = "delete" =>
        /\ Sent(EpDelete) =>
              /\ ListedKey
              /\ signature # NoSig
              /\ Len(requests) = 2
              /\ requests[1].ep = EpList
              /\ requests[2].ep = EpDelete
        /\ (pc = "done" /\ ListedKey) =>
              /\ Sent(EpDelete) <=> signature # NoSig
              /\ ~Sent(EpDelete) =>
                    /\ result.kind = "raised"
                    /\ result.error \in SigningErrors
        /\ (listing.seen /\ ~ListedKey) =>
              /\ pc = "done"
              /\ result.kind = "returned"
              /\ result.success = FALSE
              /\ result.message = "File does not exist or has already been deleted"
              /\ signature = NoSig
              /\ messageToSign = NoMsg
              /\ ~Sent(EpDelete)

\* The key was listed and the delete request has gone out after the list
\* request.
C9_Witness ==
    /\ op = "delete"
    /\ pc = "done"
    /\ ListedKey
    /\ Sent(EpDelete)
    /\ filename = <<"srv", "a.txt">>

\* The precheck failed: no response, a non-2xx status, a body that does not
\* parse, or a body without an objects list.
PrecheckFailed ==
    /\ listing.seen
    /\ \/ ~listing.resp.net
       \/ ~listing.resp.ok
       \/ ~listing.resp.parses
       \/ ~listing.resp.hasObjects

\* C10: any failure of the existence precheck of deleteFile is treated as
\* 'does not exist': no error is raised, the not-found result is returned
\* and no delete request is sent, also when the object exists on the server.
C10_PrecheckFailOpen ==
    (op = "delete" /\ PrecheckFailed) =>
        /\ pc = "done"
        /\ result.kind = "returned"
        /\ result.success = FALSE
        /\ result.message = "File does not exist or has already been deleted"
        /\ result.error = NoErr
        /\ ~Sent(EpDelete)
        /\ Len(requests) = 1

\* The object is on the server and is even listed, but the list response
\* was not 2xx: deleteFile has answered not-found.
C10_Witness ==
    /\ op = "delete"
    /\ PrecheckFailed
    /\ ~listing.resp.ok
    /\ listing.resp.net
    /\ filename \in listing.resp.objects
    /\ <<args.bucket, filename>> \in serverObjects
    /\ result.kind = "returned"

\* The delete request of the call has been answered; the answer.
DeleteAnswered ==
    /\ op = "delete"
    /\ Sent(EpDelete)
    /\ Len(replies) = Len(requests)
DeleteReply == replies[Len(replies)]

\* C12: when the precheck found the key and the delete request was sent, a
\* response that parsed but reports the deletion as unsuccessful (a parsed
\* body under a non-2xx status) comes back to the caller as a returned
\* {success: false, message}, not as a raised error; and success: true is
\* returned only when the server reported success.
C12_UnsuccessfulIsReturned ==
    (DeleteAnswered /\ pc = "done") =>
        /\ (DeleteReply.net /\ DeleteReply.parses /\ ~DeleteReply.ok) =>
              /\ result.kind = "returned"
              /\ ~result.success
        /\ (result.kind = "returned" /\ result.success) => DeleteReply.ok

\* C13: once the delete request was sent, a non-2xx response or a body that
\* does not parse makes deleteFile raise and never return a value; a body
\* that does not parse raises also under a 2xx status, and the error is then
\* the parse failure whatever the status is.
C13_DeleteFailureRaises ==
    DeleteAnswered =>
        /\ pc = "done"
        /\ (DeleteReply.net /\ (~DeleteReply.ok \/ ~DeleteReply.parses)) =>
              result.kind = "raised"
        /\ (DeleteReply.net /\ ~DeleteReply.parses) =>
              /\ result.kind = "raised"
              /\ result.error = Err("Failed to parse server response")

\* A delete answered with a non-2xx status and a body that is not JSON has
\* raised the parse failure.
C13_Witness ==
    /\ DeleteAnswered
    /\ DeleteReply.net
    /\ ~DeleteReply.ok
    /\ ~DeleteReply.parses
    /\ Raised
    /\ result.error = Err("Failed to parse server response")

\* C14: when the request of part n is answered with a non-2xx status, the
\* upload stops there: no part m > n is sent, part n is not sent again, no
\* complete request is sent, no progress event is emitted for part n, and
\* the error of the call names part n.
C14_PartFailureAborts ==
    op = "upload" =>
        \A i \in 1..Len(replies) :
            (requests[i].ep = EpPart /\ replies[i].net /\ ~replies[i].ok) =>
                LET n == requests[i].partNumber IN
                /\ i = Len(requests)
                /\ \A j \in 1..Len(requests) :
                      /\ requests[j].ep = EpPart => requests[j].partNumber <= n
                      /\ (requests[j].ep = EpPart /\ requests[j].partNumber = n)
                            => j = i
                /\ ~Sent(EpComplete)
                /\ Len(Uploading) = IF args.hasSink THEN n - 1 ELSE 0
                /\ \A k \in 1..Len(Uploading) :
                      Uploading[k].num * totalParts < n * 90 * Uploading[k].den
                /\ pc \in {"catch", "done"}
                /\ error = [name |-> "Failed to upload part", part |-> n]
                /\ pc = "done" => (result.kind = "raised" /\ result.error = error)

\* Part 1 was stored and reported, part 2 was refused, the call has raised.
C14_Witness ==
    /\ op = "upload"
    /\ args.hasSink
    /\ Len(requests) = 3
    /\ PartSucceeded(2)
    /\ requests[3].ep = EpPart
    /\ Len(replies) = 3
    /\ replies[3].net
    /\ ~replies[3].ok
    /\ Raised
    /\ result.error.part = 2
    /\ Len(Uploading) = 1

\* The create request of the call was answered with a non-2xx status.
CreateRefused ==
    /\ op = "upload"
    /\ Len(replies) >= 1
    /\ requests[1].ep = EpCreate
    /\ replies[1].net
    /\ ~replies[1].ok

\* C15: a non-2xx response to the create request ends the upload: create is
\* not sent again, no part and no complete request is ever sent, no
\* 'uploading' event is emitted, and the call raises.
C15_CreateFailureFatal ==
    CreateRefused =>
        /\ Len(requests) = 1
        /\ CountSent(EpCreate) = 1
        /\ ~Sent(EpPart)
        /\ ~Sent(EpComplete)
        /\ Uploading = <<>>
        /\ pc \in {"catch", "done"}
        /\ error # NoErr
        /\ pc = "done" => (result.kind = "raised" /\ result.error = error)

\* A refused create whose body was JSON has made the call raise, with the
\* error event as the only event.
C15_Witness ==
    /\ CreateRefused
    /\ replies[1].parses
    /\ args.hasSink
    /\ Raised
    /\ Len(events) = 1
    /\ events[1].status = "error"

\* C16: the complete request is sent at most once and only after every one
\* of the n = ceil(size / 5 MiB) parts was answered successfully; its parts
\* list is <<(ETag_1, 1), ..., (ETag_n, n)>> where ETag_m is the ETag of the
\* response to part m, and it carries the uploadId and key of the create
\* response.
C16_CompleteAfterAllParts ==
    op = "upload" =>
        \A i \in 1..Len(requests) :
            requests[i].ep = EpComplete =>
                \A n \in 1..(MaxChunks + 2) :
                    ((n - 1) * 5242880 < args.size /\ args.size <= n * 5242880) =>
                        /\ CountSent(EpComplete) = 1
                        /\ i = n + 2
                        /\ i = Len(requests)
                        /\ replies[1].ok /\ replies[1].parses
                        /\ \A m \in 1..n :
                              /\ requests[m + 1].partNumber = m
                              /\ PartSucceeded(m + 1)
                        /\ requests[i].parts =
                              [m \in 1..n |-> [ETag |-> replies[m + 1].ETag,
                                               PartNumber |-> m]]
                        /\ requests[i].uploadId = replies[1].uploadId
                        /\ requests[i].key = replies[1].key

\* A three-part upload whose parts came back with different ETags has been
\* completed.
C16_Witness ==
    /\ op = "upload"
    /\ Returned
    /\ Len(requests) = 5
    /\ requests[5].ep = EpComplete
    /\ Len(requests[5].parts) = 3
    /\ replies[2].ETag # replies[3].ETag
    /\ requests[5].parts[2].ETag = replies[3].ETag

\* The characters cs as one string.
RECURSIVE JoinChars(_)
JoinChars(cs) == IF cs = <<>> THEN "" ELSE Head(cs) \o JoinChars(Tail(cs))

\* The segments of the path cs: what lies between its slashes.
RECURSIVE Segments(_)
Segments(cs) ==
    IF \E i \in 1..Len(cs) : cs[i] = "/"
    THEN LET i == CHOOSE j \in 1..Len(cs) :
                      cs[j] = "/" /\ \A k \in 1..(j - 1) : cs[k] # "/"
         IN <<JoinChars(SubSeq(cs, 1, i - 1))>>
                \o Segments(SubSeq(cs, i + 1, Len(cs)))
    ELSE <<JoinChars(cs)>>

\* The key the client would compute itself: directory, '/', file name.
FullKey(dir, name) == IF dir = <<>> THEN name ELSE Segments(dir) \o name

\* C17: every upload-part request and the complete request carry the key
\* and the uploadId of the create response, never the key computed locally,
\* also when the server's key differs from the file name.
C17_ServerKeyUsed ==
    op = "upload" =>
        \A i \in 1..Len(requests) :
            requests[i].ep \in {EpPart, EpComplete} =>
                /\ replies[1].ok /\ replies[1].parses
                /\ requests[i].key = replies[1].key
                /\ requests[i].uploadId = replies[1].uploadId
                /\ replies[1].key # args.name => requests[i].key # args.name
                /\ replies[1].key # FullKey(args.directory, args.name) =>
                      requests[i].key # FullKey(args.directory, args.name)

\* A file "a.txt" was stored under the key "srv/a.txt" the server chose.
C17_Witness ==
    /\ op = "upload"
    /\ Returned
    /\ args.name = <<"a.txt">>
    /\ replies[1].key = <<"srv", "a.txt">>
    /\ Sent(EpComplete)
    /\ \A i \in 1..Len(requests) :
          requests[i].ep \in {EpPart, EpComplete} =>
              requests[i].key = <<"srv", "a.txt">>

\* The texts the client falls back to when the server gave none.
FallbackTexts ==
    { "Upload failed",
      "Upload failed - Status, Response",
      "Upload failed - Status, Error parsing response",
      "Failed to complete multipart upload" }

\* The error text a refused upload or complete response reports: the body is
\* structured (JSON; for /v1/object/upload also declared as JSON) and has an
\* error member (for /v1/object/upload a message member will do as well).
ServerErrorText(ep, r) ==
    IF ~r.parses \/ (ep = EpUpload /\ r.ctype # "json") THEN ""
    ELSE IF r.error # "" THEN r.error
    ELSE IF ep = EpUpload THEN r.message
    ELSE ""

\* C18: a non-2xx response from /v1/object/upload or from
\* /v1/object/multipart/complete is a failure whatever its payload is:
\* uploadFile never returns an outcome after it, it raises an error that
\* carries the server's error text when the body is structured and a
\* fallback text otherwise.
C18_Non2xxIsFailure ==
    op = "upload" =>
        \A i \in 1..Len(replies) :
            ( /\ requests[i].ep \in {EpUpload, EpComplete}
              /\ replies[i].net
              /\ ~replies[i].ok ) =>
                /\ pc \in {"catch", "done"}
                /\ result.kind # "returned"
                /\ pc = "done" => (result.kind = "raised" /\ result.error = error)
                /\ IF ServerErrorText(requests[i].ep, replies[i]) # ""
                   THEN error = Err(ServerErrorText(requests[i].ep, replies[i]))
                   ELSE error.name \in FallbackTexts

\* C19: in a multipart upload the 'filename' of the create request and the
\* name bound into the signed init message are the full object key: the
\* directory, '/', the file name for a non-empty directory, the file name
\* alone for an empty or absent one.
C19_CreateCarriesFullKey ==
    op = "upload" =>
        \A i \in 1..Len(requests) :
            requests[i].ep = EpCreate =>
                /\ requests[i].filename = FullKey(args.directory, args.name)
                /\ requests[i].message.msg.kind = "Initialize multipart upload"
                /\ requests[i].message.msg.name =
                      FullKey(args.directory, args.name)

\* C20: the single-request POST carries the file bytes, the signature, the
\* signer, the bucket and the directory: whenever uploadFile is given a
\* directory for a file of at most 5 MiB, the request to /v1/object/upload
\* carries that directory.
C20_UploadCarriesDirectory ==
    op = "upload" =>
        \A i \in 1..Len(requests) :
            requests[i].ep = EpUpload =>
                /\ requests[i].start = 0 /\ requests[i].end = args.size
                /\ requests[i].message # NoSig
                /\ requests[i].signer # ""
                /\ requests[i].bucket = args.bucket
                /\ requests[i].directory = args.directory

\* The call in progress is a deleteFile for the bucket and key of the
\* deleteFile call that ended just before it.
SecondDelete ==
    /\ op = "delete"
    /\ previous.op = "delete"
    /\ previous.bucket = args.bucket
    /\ previous.key = filename

\* C11 as stated: against a service whose listing reflects completed
\* deletions, after a deleteFile call has returned a value, a second
\* deleteFile for the same bucket and key raises no error, and when the first call returned success: true the second returns
\* {success: false, 'File does not exist or has already been deleted'} and
\* sends no delete request.
C11_RepeatNeverErrors ==
    (SecondDelete /\ previous.kind = "returned") =>
        /\ result.kind # "raised"
        /\ (previous.kind = "returned" /\ previous.success) =>
              /\ ~Sent(EpDelete)
              /\ pc = "done" =>
                    /\ result.kind = "returned"
                    /\ ~result.success
                    /\ result.message =
                          "File does not exist or has already been deleted"

\* C11, what holds: when the first call returned success: true, the second
\* call for the same bucket and key raises no error, sends no delete request
\* and returns {success: false, 'File does not exist or has already been
\* deleted'}.
C11_RepeatAfterSuccess ==
    (SecondDelete /\ previous.kind = "returned" /\ previous.success) =>
        /\ result.kind # "raised"
        /\ ~Sent(EpDelete)
        /\ pc \in {"await_list", "done"}
        /\ pc = "done" =>
              /\ result.kind = "returned"
              /\ ~result.success
              /\ result.message =
                    "File does not exist or has already been deleted"

\* A key was deleted, and the second call for it, answered with a 2xx
\* listing of what is left, has returned the not-found result.
C11_Witness ==
    /\ SecondDelete
    /\ previous.kind = "returned"
    /\ previous.success
    /\ Returned
    /\ ~result.success
    /\ Len(requests) = 1
    /\ replies[1].ok
    /\ replies[1].parses
    /\ listing.resp.hasObjects
    /\ listing.resp.objects # {}

\* The path s is in normal form: it neither starts nor ends with '/' and has
\* no two adjacent '/'.
IsNormalized(s) ==
    /\ s # <<>> => (s[1] # "/" /\ s[Len(s)] # "/")
    /\ \A i \in 1..(Len(s) - 1) : ~(s[i] = "/" /\ s[i + 1] = "/")

\* The characters of s that are not slashes, in order.
NonSlash(s) == SelectSeq(s, LAMBDA c : c # "/")

\* The upload command has called uploadFile.
CommandRan == op = "upload" /\ args.hasSink /\ pc = "sign"

\* C21: the directory the upload command passes on is the folder without
\* its leading and trailing slashes and with every run of slashes inside
\* reduced to one: '/a//b/' gives 'a/b', '' gives '', only slashes give '';
\* the result never starts with, ends with or contains two adjacent '/';
\* a folder already in that form is passed on unchanged.
C21_DirectoryNormalized ==
    CommandRan =>
        /\ IsNormalized(args.directory)
        /\ NonSlash(args.directory) = NonSlash(args.folder)
        /\ Segments(args.directory) =
              IF NonSlash(args.folder) = <<>> THEN <<"">>
              ELSE SelectSeq(Segments(args.folder), LAMBDA g : g # "")
        /\ args.folder = <<"/", "a", "/", "/", "b", "/">> =>
              args.directory = <<"a", "/", "b">>
        /\ args.folder = <<>> => args.directory = <<>>
        /\ NonSlash(args.folder) = <<>> => args.directory = <<>>
        /\ IsNormalized(args.folder) => args.directory = args.folder
        /\ NormalizeDirectory(args.directory) = args.directory

\* The command was given the folder '/a//b/' and passed 'a/b' on.
C21_Witness ==
    /\ CommandRan
    /\ args.folder = <<"/", "a", "/", "/", "b", "/">>
    /\ args.directory = <<"a", "/", "b">>

\* signMessage has been called in the call in progress and has settled.
SigningSettled ==
    /\ op \in {"upload", "delete"}
    /\ messageToSign # NoMsg
    /\ pc \notin {"idle", "sign"}

\* The error the call in progress has run into, if any.
CallError == IF op = "upload" THEN error ELSE result.error

\* C22: a wallet that exposes signMessage signs; otherwise a configured
\* keypair signs; otherwise signing fails with 'No signing method
\* available'.  A client whose wallet has no signMessage fails at signing
\* although getSigner gives its identity.
C22_SigningMechanism ==
    SigningSettled =>
        /\ (sdk.wallet.present /\ sdk.wallet.hasSignMessage) =>
              \/ /\ signature.by = "wallet"
                 /\ signature.key = sdk.wallet.publicKey
                 /\ signature.msg = messageToSign
              \/ /\ signature = NoSig
                 /\ CallError = Err("wallet signMessage rejected")
        /\ (~(sdk.wallet.present /\ sdk.wallet.hasSignMessage)
              /\ sdk.keypair.present) =>
              /\ signature.by = "keypair"
              /\ signature.key = sdk.keypair.publicKey
              /\ signature.msg = messageToSign
        /\ (~(sdk.wallet.present /\ sdk.wallet.hasSignMessage)
              /\ ~sdk.keypair.present) =>
              /\ signature = NoSig
              /\ CallError = Err("No signing method available")
              /\ \A i \in 1..Len(requests) : requests[i].message = NoSig
              /\ pc = "done" => result.kind = "raised"

\* A client whose wallet has a public key but no signMessage has listed the
\* bucket under that identity, found the key, and failed to sign.
C22_Witness ==
    /\ op = "delete"
    /\ sdk.wallet.present
    /\ ~sdk.wallet.hasSignMessage
    /\ sdk.wallet.publicKey = "WPK"
    /\ Len(requests) = 1
    /\ requests[1].owner = "WPK"
    /\ Raised
    /\ result.error = Err("No signing method available")

\* The message of the call in progress and the message of the call before
\* it are both of the kind k.
BothMessages(k) ==
    /\ messageToSign.kind = k
    /\ previous.msg.kind = k

\* C23: the signed message is a function of the logical arguments alone:
\* two single-request uploads of the same (bucket, file name) sign the same
\* message whatever the size and however many calls went before; two
\* multipart uploads of the same (bucket, file name, size) sign the same
\* init message; two deletes of the same (bucket, resolved key) sign the
\* same delete message.
C23_MessagesDeterministic ==
    /\ (BothMessages("Upload file with hash")
          /\ previous.bucket = args.bucket /\ previous.key = args.name)
          => messageToSign = previous.msg
    /\ (BothMessages("Initialize multipart upload")
          /\ previous.bucket = args.bucket /\ previous.key = args.name
          /\ previous.size = args.size)
          => messageToSign = previous.msg
    /\ (BothMessages("Delete file")
          /\ previous.bucket = args.bucket /\ previous.key = filename)
          => messageToSign = previous.msg
    /\ (signature # NoSig /\ messageToSign # NoMsg) =>
          signature.msg = messageToSign

\* An empty file and then a 5 MiB file of the same name were uploaded to the
\* same bucket: the second signature is over the message of the first call.
C23_Witness ==
    /\ op = "upload"
    /\ previous.op = "upload"
    /\ previous.size = 0
    /\ args.size = 5242880
    /\ previous.key = args.name
    /\ signature # NoSig
    /\ signature.msg = previous.msg

\* C24: a call has at most one request outstanding: every request but the
\* last has its response; part 1 is sent only after a successful create
\* response, part n + 1 only after the successful response to part n, and
\* the complete request only after the successful response to the last
\* part.
C24_OneRequestOutstanding ==
    op # "none" =>
        /\ Len(replies) <= Len(requests)
        /\ Len(requests) - Len(replies) <= 1
        /\ \A i \in 2..Len(requests) :
              /\ requests[i].ep = EpPart =>
                    IF requests[i].partNumber = 1
                    THEN /\ requests[i - 1].ep = EpCreate
                         /\ replies[i - 1].ok /\ replies[i - 1].parses
                    ELSE /\ requests[i - 1].ep = EpPart
                         /\ requests[i - 1].partNumber + 1 = requests[i].partNumber
                         /\ PartSucceeded(i - 1)
              /\ requests[i].ep = EpComplete =>
                    /\ requests[i - 1].ep = EpPart
                    /\ requests[i - 1].end = args.size
                    /\ PartSucceeded(i - 1)

\* Part 2 of three is the one request in flight; create and part 1 have been
\* answered.
C24_Witness ==
    /\ op = "upload"
    /\ pc = "await_part"
    /\ totalParts = 3
    /\ Len(requests) = 3
    /\ Len(replies) = 2
    /\ requests[3].partNumber = 2
    /\ PartSucceeded(2)

\* The positions of the path segments of the absolute URL u that equal b
\* (the path starts after scheme, "//" and host).
BucketSegments(u, b) == { i \in 4..Len(u) : u[i] = b }

\* C26: when the input of deleteFile is an absolute URL whose path has a
\* segment equal to the bucket with at least one segment after it, the key
\* is everything after the first such segment; in every other case (not a
\* URL, no such segment, the bucket segment is the last one) the key is the
\* input as given.
C26_KeyResolution ==
    op = "delete" =>
        LET u == args.fileUrl
            b == args.bucket
            isUrl == Len(u) >= 3 /\ u[1] = "https:" /\ u[2] = ""
        IN IF isUrl /\ \E i \in BucketSegments(u, b) : i < Len(u)
           THEN \E i \in BucketSegments(u, b) :
                   /\ \A j \in BucketSegments(u, b) : i <= j
                   /\ filename = SubSeq(u, i + 1, Len(u))
           ELSE filename = u

\* deleteFile was given https://host/v1/B/B/a.txt for bucket B and has
\* worked on the key B/a.txt.
C26_Witness ==
    /\ op = "delete"
    /\ pc = "done"
    /\ args.fileUrl = <<"https:", "", "host", "v1", "B", "B", "a.txt">>
    /\ filename = <<"B", "a.txt">>
    /\ Len(requests) >= 1

\* The identity a request carries: `owner` in the list request, `signer` in
\* all others.
Identity(q) == IF q.ep = EpList THEN q.owner ELSE q.signer

\* State part of C27.
C27_OneMechanism ==
    /\ sdk.wallet.present \/ sdk.keypair.present
    /\ ~(sdk.wallet.present /\ sdk.keypair.present)
    /\ IF sdk.wallet.present /\ sdk.wallet.publicKey # ""
       THEN \A i \in 1..Len(requests) : Identity(requests[i]) = sdk.wallet.publicKey
       ELSE IF sdk.keypair.present
       THEN \A i \in 1..Len(requests) : Identity(requests[i]) = sdk.keypair.publicKey
       ELSE /\ requests = <<>>
            /\ signer = ""
            /\ pc = "done" => result.kind = "raised"
            /\ (pc = "done" /\ (op = "delete" \/ signature # NoSig)) =>
                  result.error = Err("No signer available")
    /\ \A i, j \in 1..Len(requests) :
          Identity(requests[i]) = Identity(requests[j])

\* C27: a client has exactly one of wallet and keypair, never both; no call
\* changes its endpoint, wallet or keypair; getSigner gives the wallet's
\* public key when the wallet has one, otherwise the keypair's, otherwise
\* it raises 'No signer available'; all requests of a call carry the same
\* identity.
C27_SignerIdentity == [] C27_OneMechanism /\ [][sdk' = sdk]_vars

\* A wallet client has completed a three-part upload, all five requests
\* under the wallet's public key.
C27_Witness ==
    /\ op = "upload"
    /\ Returned
    /\ sdk.wallet.present
    /\ ~sdk.keypair.present
    /\ Len(requests) = 5
    /\ \A i \in 1..5 : requests[i].signer = sdk.wallet.publicKey
    /\ sdk.wallet.publicKey = "WPK"

\* C28: the complete request is a signed request: a signature is produced
\* for it before it is sent and the request carries it, as the create
\* request carries the signature of the init message.
C28_CompleteSigned ==
    op = "upload" =>
        \A i \in 1..Len(requests) :
            requests[i].ep = EpComplete =>
                /\ requests[1].message # NoSig
                /\ requests[i].message # NoSig

\* signMessage was called in the call in progress and threw.
SigningFailed == SigningSettled /\ signature = NoSig

\* C29: the upload, create and delete requests never go out without the
\* signature of the call's message.  When signing fails in uploadFile, no
\* request at all is sent and the caller gets the error after one 'error'
\* event; when it fails in deleteFile, only the unsigned list request has
\* been sent, the delete request never is, and the call raises.
C29_NoUnsignedRequest ==
    /\ \A i \in 1..Len(requests) :
          requests[i].ep \in {EpUpload, EpCreate, EpDelete} =>
              /\ requests[i].message # NoSig
              /\ requests[i].message.enc = "bs58"
              /\ requests[i].message.msg = messageToSign
    /\ (SigningFailed /\ op = "upload") =>
          /\ requests = <<>>
          /\ pc \in {"catch", "done"}
          /\ error \in { Err("No signing method available"),
                         Err("wallet signMessage rejected") }
          /\ pc = "catch" => events = <<>>
          /\ pc = "done" =>
                /\ result.kind = "raised"
                /\ result.error = error
                /\ events = IF args.hasSink
                            THEN <<[status |-> "error", num |-> 0, den |-> 1]>>
                            ELSE <<>>
    /\ (SigningFailed /\ op = "delete") =>
          /\ Len(requests) = 1
          /\ requests[1].ep = EpList
          /\ requests[1].message = NoSig
          /\ pc = "done"
          /\ result.kind = "raised"
          /\ result.error \in { Err("No signing method available"),
                                Err("wallet signMessage rejected") }

\* A wallet has refused to sign an upload: nothing was sent, the sink got
\* one error event, the call has raised.
C29_Witness ==
    /\ op = "upload"
    /\ SigningFailed
    /\ args.hasSink
    /\ Raised
    /\ result.error = Err("wallet signMessage rejected")
    /\ requests = <<>>
    /\ Len(events) = 1

\* State part of C30: the delete request, the signed message and the
\* precheck agree on bucket and key.
C30_SameKey ==
    (op = "delete" /\ Sent(EpDelete)) =>
        /\ Len(requests) = 2
        /\ requests[1].ep = EpList
        /\ requests[1].bucket = args.bucket
        /\ listing.seen
        /\ listing.resp.hasObjects
        /\ filename \in listing.resp.objects
        /\ requests[2].ep = EpDelete
        /\ requests[2].bucket = args.bucket
        /\ requests[2].filename = filename
        /\ requests[2].message.msg.kind = "Delete file"
        /\ requests[2].message.msg.bucket = args.bucket
        /\ requests[2].message.msg.name = filename

\* Step part of C30: the only object a deleteFile call removes is the one
\* whose key it found in the listing.
C30_DeletesCheckedKey ==
    (op = "delete" /\ serverObjects' # serverObjects) =>
        /\ serverObjects' = serverObjects \ {<<args.bucket, filename>>}
        /\ filename \in listing.resp.objects

\* C30: in deleteFile the key looked up in the listing, the key in the
\* signed delete message and the filename of the delete request are the
\* same resolved key, with the same bucket in all three; no key other than
\* the one checked is ever deleted.
C30_DeleteConsistent == [] C30_SameKey /\ [][C30_DeletesCheckedKey]_vars

\* deleteFile was given the URL of srv/a.txt, found that key in the listing
\* and deleted it.
C30_Witness ==
    /\ op = "delete"
    /\ args.fileUrl = <<"https:", "", "host", "B", "srv", "a.txt">>
    /\ Returned
    /\ result.success
    /\ requests[2].filename = <<"srv", "a.txt">>
    /\ <<"B", <<"srv", "a.txt">>>> \notin serverObjects

\* The positions of the part requests of the call k, and its events with
\* status 'uploading'.
PartsSent(k) == { i \in 1..Len(k.requests) : k.requests[i].ep = EpPart }
UploadingOf(k) == SelectSeq(k.events, LAMBDA e : e.status = "uploading")

\* C25 for one call: its part and complete requests carry the uploadId and
\* key of its own create response, its complete request lists the ETags of
\* the responses to its own parts, and its progress events are computed
\* from its own number of parts.
Independent(k) ==
    /\ \A i \in 1..Len(k.requests) :
          k.requests[i].ep \in {EpPart, EpComplete} =>
              /\ k.requests[i].uploadId = k.replies[1].uploadId
              /\ k.requests[i].key = k.replies[1].key
              /\ k.requests[i].signer = k.requests[1].signer
    /\ \A i \in 1..Len(k.requests) :
          k.requests[i].ep = EpComplete =>
              /\ i = Cardinality(PartsSent(k)) + 2
              /\ k.requests[i].parts =
                    [m \in 1..(i - 2) |-> [ETag |-> k.replies[m + 1].ETag,
                                           PartNumber |-> m]]
    /\ \A n \in 1..(MaxChunks + 2) :
          ((n - 1) * 5242880 < k.size /\ k.size <= n * 5242880) =>
              \A j \in 1..Len(UploadingOf(k)) :
                  IF j <= n
                  THEN UploadingOf(k)[j].num * n = j * 90 * UploadingOf(k)[j].den
                  ELSE UploadingOf(k)[j].num = 100 * UploadingOf(k)[j].den

\* C25: uploads that run together do not interfere, in any interleaving of
\* their requests and responses.
C25_CallsIndependent == \A c \in CallIds : Independent(calls[c])

\* Two uploads are under way on the same client instance: one of two parts
\* waits for its complete response, one of three parts waits for part 2,
\* and the service gave them different uploadIds and ETags.
C25_Witness ==
    /\ calls[1].pc = "await_complete"
    /\ calls[2].pc = "await_part"
    /\ calls[1].sdk = calls[2].sdk
    /\ calls[1].totalParts = 2
    /\ calls[2].totalParts = 3
    /\ calls[2].partNumber = 2
    /\ calls[1].uploadId # calls[2].uploadId
    /\ calls[1].key # calls[2].key
    /\ calls[1].uploadedParts[1].ETag # calls[2].uploadedParts[1].ETag

\* ------------------------------------------------------------------- C31
\* The statuses FileUploadProgress declares, and the ones uploadFile uses.
DeclaredStatuses == {"uploading", "complete", "error"}
EmittedStatuses == {"uploading", "error"}

\* C31: every progress event emitted by uploadFile has status 'uploading'
\* or 'error', none has status 'complete', and the 100 percent event that
\* ends a successful multipart upload carries status 'uploading'.
C31_EventStatuses ==
    /\ \A i \in 1..Len(events) :
          /\ events[i].status \in DeclaredStatuses
          /\ events[i].status \in EmittedStatuses
          /\ events[i].status # "complete"
    /\ (op = "upload" /\ path = "large" /\ args.hasSink /\ CompleteSucceeded) =>
          /\ Len(events) >= totalParts + 1
          /\ events[totalParts + 1].status = "uploading"
          /\ IsPercent(events[totalParts + 1], 100)
          /\ Returned => events[Len(events)].status = "uploading"

\* A multipart upload with a sink has returned its outcome, and the last
\* event its sink received is the 100 percent one.
C31_Witness ==
    /\ op = "upload"
    /\ path = "large"
    /\ args.hasSink
    /\ Returned
    /\ CompleteSucceeded
    /\ IsPercent(events[Len(events)], 100)

\* ------------------------------------------------------------------- C32
\* The part requests sent so far carry pairwise different part numbers.
PartNumbersDistinct ==
    \A i, j \in 1..Len(requests) :
        (requests[i].ep = EpPart /\ requests[j].ep = EpPart
            /\ requests[i].partNumber = requests[j].partNumber) => i = j

\* No step of a call is taken twice, and the part loop is bounded by
\* totalParts.
C32_NoStepRepeated ==
    /\ CountSent(EpUpload) <= 1
    /\ CountSent(EpCreate) <= 1
    /\ CountSent(EpComplete) <= 1
    /\ CountSent(EpList) <= 1
    /\ CountSent(EpDelete) <= 1
    /\ CountSent(EpPart) <= totalParts
    /\ partNumber <= totalParts + 1
    /\ PartNumbersDistinct
    /\ Len(uploadedParts) <= totalParts
    /\ op = "upload" => CountSent(EpList) + CountSent(EpDelete) = 0
    /\ op = "delete" =>
          CountSent(EpUpload) + CountSent(EpCreate) + CountSent(EpPart)
              + CountSent(EpComplete) = 0
    /\ path = "small" => CountSent(EpCreate) = 0
    /\ path = "large" => CountSent(EpUpload) = 0

\* A call of uploadFile in progress leads to its outcome or its error.
C32_UploadSettles ==
    (op = "upload" /\ pc # "idle") ~> (op = "upload" /\ (Returned \/ Raised))

\* A call of deleteFile in progress leads to its result or its error.
C32_DeleteSettles ==
    (op = "delete" /\ pc # "idle") ~> (op = "delete" /\ (Returned \/ Raised))

\* C32: if every signing call and every network request eventually
\* completes, every uploadFile call eventually returns an outcome or raises
\* an error and every deleteFile call eventually returns a result or
\* raises; the part loop runs at most totalParts iterations and no step of
\* a call is repeated.
C32_Terminates ==
    /\ [] C32_NoStepRepeated
    /\ C32_UploadSettles
    /\ C32_DeleteSettles

\* A multipart upload of the largest number of parts has returned after
\* exactly totalParts part requests.
C32_Witness ==
    /\ op = "upload"
    /\ path = "large"
    /\ Returned
    /\ totalParts = MaxChunks + 1
    /\ CountSent(EpPart) = totalParts
    /\ Len(requests) = totalParts + 2

====
